---- MODULE Spec2Model ----
(***************************************************************************)
(* Scene segmentation and layout planning of avrae2comicbook               *)
(* (src/agents/scene_planner.py, ScenePlanningAgent).                      *)
(*                                                                         *)
(* One call of plan_mission_scenes is unrolled into its loop steps:        *)
(*   SortEvents      sorted(mission.events, key=timestamp)                 *)
(*   GroupEvent      one iteration of the loop of _group_events_into_scenes*)
(*   FlushGroup      the final flush and return of that function           *)
(*   CreateScene     one iteration of the loop over scene_groups           *)
(*   ExpandScene     one iteration of the outer loop of _plan_comic_pages  *)
(*   PlacePanel      one iteration of its inner loop                       *)
(*   AttachResults   mission.scenes / mission.pages assignment and return  *)
(*                                                                         *)
(* Three further specifications apply one function on its own:            *)
(*   SpecScorer      _calculate_event_tension and _determine_scene_type    *)
(*   SpecBudget      _calculate_panels_needed                              *)
(*   SpecAllocator   _create_panels_for_scene, with any budget             *)
(* SpecTwice calls _group_events_into_scenes a second time on the same     *)
(* agent, and SpecPipeline is one run of                                   *)
(* ComicBookGenerator.generate_comic_from_mission                          *)
(* (src/comic_generator.py) with the planner as its second stage.          *)
(*                                                                         *)
(* Modelling conventions.                                                  *)
(*   - A timestamp is a number of minutes.                                 *)
(*   - A description is the set of words it contains; "keyword in          *)
(*     description" is membership of the keyword in that set (all keyword  *)
(*     tests of the planner are made on the lower-cased text).             *)
(*   - A tension is a number of tenths (8 is 0.8).  The sums the scorer    *)
(*     can form in IEEE double arithmetic compare with 0.5, 0.7, 0.8 and   *)
(*     1.0 exactly as the decimal sums do.                                 *)
(*   - None (and the empty string, which Python treats alike in the        *)
(*     truth tests of the planner) is the value None below.                *)
(*   - Event ids are unique within a mission (Event model, "unique id");   *)
(*     the id of an event is its position in mission.events.               *)
(*   - main_characters is a set; titles and description texts of scenes    *)
(*     and panels are not part of the state.                               *)
(***************************************************************************)
EXTENDS Integers, Sequences, FiniteSets, TLC

VARIABLES
    pc,                    \* position in plan_mission_scenes
    mission_events,        \* mission.events
    mission_locations,     \* mission.locations
    mission_characters,    \* mission.characters
    mission_scenes,        \* mission.scenes
    mission_pages,         \* mission.pages
    sorted_events,         \* local sorted_events of plan_mission_scenes
    i,                     \* loop index of the running loop (1-based)
    scene_groups,          \* local scenes of _group_events_into_scenes
    current_scene_events,  \* local current_scene_events
    current_scene_info,    \* local current_scene_info
    scenes,                \* self.scenes
    pages,                 \* local pages of _plan_comic_pages
    page_number,           \* local page_number
    panel_counter,         \* local panel_counter
    scene_panels,          \* panels of the current scene not yet placed
    created,               \* every list returned by _create_panels_for_scene
    probe                  \* the argument and result of a function applied
                           \* on its own; current_status in SpecPipeline

vars == <<pc, mission_events, mission_locations, mission_characters,
          mission_scenes, mission_pages, sorted_events, i, scene_groups,
          current_scene_events, current_scene_info, scenes, pages,
          page_number, panel_counter, scene_panels, created, probe>>

missionInput == <<mission_events, mission_characters>>
groupLocals == <<scene_groups, current_scene_events, current_scene_info>>
pageLocals == <<pages, page_number, panel_counter, scene_panels, created>>

-----------------------------------------------------------------------------
(* Bounds of the model and constants of the program *)

MaxEvents == 3

SceneBreakThreshold == 30
MaxPanelsPerPage == 6
SoftPanelsPerPage == 4
MaxPanelsPerScene == 4

None == "None"

EventTypes == {"dialogue", "action", "combat", "roll", "narration", "scene_transition"}

HighTensionKeywords == {"death", "die", "kill", "destroy", "final", "last"}
MediumTensionKeywords == {"attack", "fight", "battle", "danger", "threat"}
DialogueMarkers == {"\"", "says", "shouts", "whispers"}
DistressWords == {"no!", "help!", "stop!", "wait!"}
CombatKeywords == {"attack", "cast", "fight", "battle", "damage"}
MovementKeywords == {"move", "jump", "climb", "run", "fly"}

Min(a, b) == IF a <= b THEN a ELSE b
Max(a, b) == IF a >= b THEN a ELSE b

-----------------------------------------------------------------------------
(* Pure functions of the planner *)

ContainsAny(description, keywords) == description \cap keywords # {}

DetermineSceneTypeMovementFirst(event) ==
    IF event.event_type = "combat" THEN "combat"
    ELSE IF event.event_type = "roll" THEN "action"
    ELSE IF event.event_type = "dialogue" THEN "dialogue"
    ELSE IF event.event_type = "action" THEN
        IF ContainsAny(event.description, MovementKeywords) THEN "action"
        ELSE IF ContainsAny(event.description, CombatKeywords) THEN "combat"
        ELSE "dialogue"
    ELSE "dialogue"

DetermineSceneType(event) ==
    IF event.event_type = "combat" THEN "combat"
    ELSE IF event.event_type = "roll" THEN "action"
    ELSE IF event.event_type = "dialogue" THEN "dialogue"
    ELSE IF event.event_type = "action" THEN
        IF ContainsAny(event.description, CombatKeywords) THEN "combat"
        ELSE IF ContainsAny(event.description, MovementKeywords) THEN "action"
        ELSE "dialogue"
    ELSE "dialogue"

BaseTension(event_type) ==
    IF event_type = "combat" THEN 8
    ELSE IF event_type = "action" THEN 6
    ELSE IF event_type = "roll" THEN 4
    ELSE IF event_type = "dialogue" THEN 2
    ELSE 0

CalculateEventTensionMarkerOnly(event) ==
    LET high == ContainsAny(event.description, HighTensionKeywords)
        medium == ContainsAny(event.description, MediumTensionKeywords)
        dramatic == ContainsAny(event.description, DialogueMarkers)
    IN  Min(BaseTension(event.event_type)
              + (IF high THEN 3 ELSE 0)
              + (IF medium THEN 2 ELSE 0)
              + (IF dramatic THEN 3 ELSE 0),
            10)

CalculateEventTensionUnclamped(event) ==
    LET high == ContainsAny(event.description, HighTensionKeywords)
        medium == ContainsAny(event.description, MediumTensionKeywords)
        dramatic == /\ ContainsAny(event.description, DialogueMarkers)
                    /\ ContainsAny(event.description, DistressWords)
    IN  BaseTension(event.event_type)
          + (IF high THEN 3 ELSE 0)
          + (IF medium THEN 2 ELSE 0)
          + (IF dramatic THEN 3 ELSE 0)

CalculateEventTension(event) ==
    LET high == ContainsAny(event.description, HighTensionKeywords)
        medium == ContainsAny(event.description, MediumTensionKeywords)
        dramatic == /\ ContainsAny(event.description, DialogueMarkers)
                    /\ ContainsAny(event.description, DistressWords)
    IN  Min(BaseTension(event.event_type)
              + (IF high THEN 3 ELSE 0)
              + (IF medium THEN 2 ELSE 0)
              + (IF dramatic THEN 3 ELSE 0),
            10)

-----------------------------------------------------------------------------
(* sorted(mission.events, key=lambda e: e.timestamp): a stable sort *)

InsertByTimestampBeforeTies(sorted, event) ==
    LET before == SelectSeq(sorted, LAMBDA e : e.timestamp < event.timestamp)
        after == SelectSeq(sorted, LAMBDA e : e.timestamp >= event.timestamp)
    IN  before \o <<event>> \o after

InsertByTimestamp(sorted, event) ==
    LET before == SelectSeq(sorted, LAMBDA e : e.timestamp <= event.timestamp)
        after == SelectSeq(sorted, LAMBDA e : e.timestamp > event.timestamp)
    IN  before \o <<event>> \o after

KeepInputOrder(events) == events

RECURSIVE SortByTimestamp(_)
SortByTimestamp(events) ==
    IF events = <<>> THEN <<>>
    ELSE InsertByTimestamp(SortByTimestamp(SubSeq(events, 1, Len(events) - 1)),
                           events[Len(events)])

-----------------------------------------------------------------------------
(* _group_events_into_scenes *)

FreshSceneInfo ==
    [type |-> "dialogue", location |-> None, main_characters |-> {},
     tension_level |-> 0]

ShouldBreakAtThreshold(events, info, event) ==
    /\ events # <<>>
    /\ \/ event.timestamp - events[Len(events)].timestamp >= SceneBreakThreshold
       \/ /\ event.location_id # None
          /\ info.location # None
          /\ event.location_id # info.location
       \/ LET new_scene_type == DetermineSceneType(event)
          IN  /\ new_scene_type # info.type
              /\ ~(info.type = "dialogue" /\ new_scene_type = "action")

ShouldBreakOnFirstLocation(events, info, event) ==
    /\ events # <<>>
    /\ \/ event.timestamp - events[Len(events)].timestamp > SceneBreakThreshold
       \/ /\ event.location_id # None
          /\ event.location_id # info.location
       \/ LET new_scene_type == DetermineSceneType(event)
          IN  /\ new_scene_type # info.type
              /\ ~(info.type = "dialogue" /\ new_scene_type = "action")

ShouldBreakSymmetric(events, info, event) ==
    /\ events # <<>>
    /\ \/ event.timestamp - events[Len(events)].timestamp > SceneBreakThreshold
       \/ /\ event.location_id # None
          /\ info.location # None
          /\ event.location_id # info.location
       \/ LET new_scene_type == DetermineSceneType(event)
          IN  /\ new_scene_type # info.type
              /\ ~(info.type = "dialogue" /\ new_scene_type = "action")
              /\ ~(info.type = "action" /\ new_scene_type = "dialogue")

ShouldBreakOnNeighbourLocation(events, info, event) ==
    /\ events # <<>>
    /\ \/ event.timestamp - events[Len(events)].timestamp > SceneBreakThreshold
       \/ /\ event.location_id # None
          /\ events[Len(events)].location_id # None
          /\ event.location_id # events[Len(events)].location_id
       \/ LET new_scene_type == DetermineSceneType(event)
          IN  /\ new_scene_type # info.type
              /\ ~(info.type = "dialogue" /\ new_scene_type = "action")

ShouldBreak(events, info, event) ==
    /\ events # <<>>
    /\ \/ event.timestamp - events[Len(events)].timestamp > SceneBreakThreshold
       \/ /\ event.location_id # None
          /\ info.location # None
          /\ event.location_id # info.location
       \/ LET new_scene_type == DetermineSceneType(event)
          IN  /\ new_scene_type # info.type
              /\ ~(info.type = "dialogue" /\ new_scene_type = "action")

FinalizeSceneCleared(groups, info, events) ==
    Append(groups, [info |-> info, events |-> <<>>])

FinalizeScene(groups, info, events) ==
    Append(groups, [info |-> info, events |-> events])

UpdateSceneInfoLastTension(info, event) ==
    [type |-> DetermineSceneType(event),
     location |-> IF event.location_id # None THEN event.location_id
                  ELSE info.location,
     main_characters |->
        info.main_characters
          \cup (IF event.speaker_id # None THEN {event.speaker_id} ELSE {})
          \cup event.participants,
     tension_level |-> CalculateEventTension(event)]

UpdateSceneInfoStaleType(info, event) ==
    [type |-> info.type,
     location |-> IF event.location_id # None THEN event.location_id
                  ELSE info.location,
     main_characters |->
        info.main_characters
          \cup (IF event.speaker_id # None THEN {event.speaker_id} ELSE {})
          \cup event.participants,
     tension_level |-> Max(info.tension_level, CalculateEventTension(event))]

UpdateSceneInfo(info, event) ==
    [type |-> DetermineSceneType(event),
     location |-> IF event.location_id # None THEN event.location_id
                  ELSE info.location,
     main_characters |->
        info.main_characters
          \cup (IF event.speaker_id # None THEN {event.speaker_id} ELSE {})
          \cup event.participants,
     tension_level |-> Max(info.tension_level, CalculateEventTension(event))]

-----------------------------------------------------------------------------
(* _create_scene_from_events *)

SceneId(scene_index) == "scene_" \o ToString(scene_index)
PlaceholderLocationId(scene_index) == "location_" \o ToString(scene_index)

GenericLocation(location_id) ==
    [id |-> location_id, name |-> "Unknown Location"]

InferLocationFromFirstEvent(info, events) == events[1].location_id

InferLocation(info, events) ==
    IF info.location # None THEN info.location
    ELSE LET located == SelectSeq(events, LAMBDA e : e.location_id # None)
         IN  IF located # <<>> THEN located[1].location_id ELSE None

ResolveLocationNoFallback(info, events, scene_index) ==
    InferLocation(info, events)

ResolveLocation(info, events, scene_index) ==
    IF InferLocation(info, events) # None THEN InferLocation(info, events)
    ELSE PlaceholderLocationId(scene_index)

SceneFromEvents(scene_index, info, events) ==
    [id |-> SceneId(scene_index),
     start_time |-> events[1].timestamp,
     end_time |-> events[Len(events)].timestamp,
     location_id |-> ResolveLocation(info, events, scene_index),
     events |-> [k \in 1..Len(events) |-> events[k].id],
     main_characters |-> info.main_characters,
     scene_type |-> info.type,
     dramatic_tension |-> info.tension_level]

-----------------------------------------------------------------------------
(* _calculate_panels_needed and _create_panels_for_scene *)

CalculatePanelsNeededInclusive(scene) ==
    LET base == IF scene.scene_type = "combat" THEN 3
                ELSE IF scene.scene_type = "action" THEN 2
                ELSE 1
        characters == IF Cardinality(scene.main_characters) >= 2 THEN 1 ELSE 0
        tension == IF scene.dramatic_tension >= 8 THEN 2
                   ELSE IF scene.dramatic_tension >= 5 THEN 1
                   ELSE 0
        many == IF Len(scene.events) >= 5 THEN 1 ELSE 0
    IN  Min(base + characters + tension + many, MaxPanelsPerScene)

CalculatePanelsNeeded(scene) ==
    LET base == IF scene.scene_type = "combat" THEN 3
                ELSE IF scene.scene_type = "action" THEN 2
                ELSE 1
        characters == IF Cardinality(scene.main_characters) > 2 THEN 1 ELSE 0
        tension == IF scene.dramatic_tension > 8 THEN 2
                   ELSE IF scene.dramatic_tension > 5 THEN 1
                   ELSE 0
        many == IF Len(scene.events) > 5 THEN 1 ELSE 0
    IN  Min(base + characters + tension + many, MaxPanelsPerScene)

SceneEvents(scene, events) ==
    SelectSeq(events,
              LAMBDA e : \E k \in 1..Len(scene.events) : scene.events[k] = e.id)

DeterminePanelType(event) ==
    IF event.event_type = "dialogue" THEN "dialogue"
    ELSE IF event.event_type \in {"combat", "action"} THEN "action"
    ELSE IF event.event_type = "roll" THEN "action"
    ELSE "dialogue"

\* max(events, key=tension): the first event of maximal tension
KeyEvent(events) ==
    LET k == CHOOSE k \in 1..Len(events) :
                 /\ \A j \in 1..Len(events) :
                        CalculateEventTension(events[j])
                            <= CalculateEventTension(events[k])
                 /\ \A j \in 1..(k - 1) :
                        CalculateEventTension(events[j])
                            < CalculateEventTension(events[k])
    IN  events[k]

\* role and key_event record where a panel comes from; they are not fields
\* of Panel (key_event 0: the panel is built from no event)
NewPanel(scene, panel_number, panel_type, role, key_event, dialogue) ==
    [id |-> "temp_id", scene_id |-> scene.id, panel_number |-> panel_number,
     panel_type |-> panel_type, role |-> role, key_event |-> key_event,
     dialogue |-> dialogue]

CreateSinglePanel(scene, events) ==
    LET key_event == KeyEvent(events)
    IN  NewPanel(scene, 1, DeterminePanelType(key_event), "single",
                 key_event.id, key_event.dialogue_content)

Take(seq, n) == SubSeq(seq, 1, Min(n, Len(seq)))

CreateCombatPanelsCombatKindOnly(scene, events, panel_count) ==
    LET combat_events ==
            SelectSeq(events, LAMBDA e : e.event_type = "combat")
        main_event == combat_events[(Len(combat_events) \div 2) + 1]
        setup == <<NewPanel(scene, 1, "action", "setup", 0, None)>>
        action == IF combat_events # <<>>
                  THEN <<NewPanel(scene, 2, "action", "main_action",
                                  main_event.id, main_event.dialogue_content)>>
                  ELSE <<>>
        resolution == IF panel_count >= 3
                      THEN <<NewPanel(scene, 3, "action", "resolution", 0, None)>>
                      ELSE <<>>
    IN  Take(setup \o action \o resolution, panel_count)

CreateCombatPanelsLateResolution(scene, events, panel_count) ==
    LET combat_events ==
            SelectSeq(events, LAMBDA e : e.event_type \in {"combat", "action"})
        main_event == combat_events[(Len(combat_events) \div 2) + 1]
        setup == <<NewPanel(scene, 1, "action", "setup", 0, None)>>
        action == IF combat_events # <<>>
                  THEN <<NewPanel(scene, 2, "action", "main_action",
                                  main_event.id, main_event.dialogue_content)>>
                  ELSE <<>>
        resolution == IF panel_count > 3
                      THEN <<NewPanel(scene, 3, "action", "resolution", 0, None)>>
                      ELSE <<>>
    IN  Take(setup \o action \o resolution, panel_count)

CreateCombatPanels(scene, events, panel_count) ==
    LET combat_events ==
            SelectSeq(events, LAMBDA e : e.event_type \in {"combat", "action"})
        main_event == combat_events[(Len(combat_events) \div 2) + 1]
        setup == <<NewPanel(scene, 1, "action", "setup", 0, None)>>
        action == IF combat_events # <<>>
                  THEN <<NewPanel(scene, 2, "action", "main_action",
                                  main_event.id, main_event.dialogue_content)>>
                  ELSE <<>>
        resolution == IF panel_count >= 3
                      THEN <<NewPanel(scene, 3, "action", "resolution", 0, None)>>
                      ELSE <<>>
    IN  Take(setup \o action \o resolution, panel_count)

CreateDialoguePanelsNoBudget(scene, events, panel_count) ==
    LET dialogue_events ==
            SelectSeq(events, LAMBDA e : e.event_type = "dialogue")
    IN  [k \in 1..Len(dialogue_events) |->
            NewPanel(scene, k, "dialogue", "dialogue", dialogue_events[k].id,
                     dialogue_events[k].dialogue_content)]

CreateDialoguePanels(scene, events, panel_count) ==
    LET dialogue_events ==
            SelectSeq(events, LAMBDA e : e.event_type = "dialogue")
    IN  [k \in 1..Min(panel_count, Len(dialogue_events)) |->
            NewPanel(scene, k, "dialogue", "dialogue", dialogue_events[k].id,
                     dialogue_events[k].dialogue_content)]

CreateActionPanelsNoBudget(scene, events, panel_count) ==
    LET action_events == SelectSeq(events, LAMBDA e : e.event_type = "action")
    IN  [k \in 1..Len(action_events) |->
            NewPanel(scene, k, "action", "action", action_events[k].id,
                     action_events[k].dialogue_content)]

CreateActionPanels(scene, events, panel_count) ==
    LET action_events == SelectSeq(events, LAMBDA e : e.event_type = "action")
    IN  [k \in 1..Min(panel_count, Len(action_events)) |->
            NewPanel(scene, k, "action", "action", action_events[k].id,
                     action_events[k].dialogue_content)]

CreatePanelsForScene(scene, panel_count, events) ==
    LET scene_events == SceneEvents(scene, events)
    IN  IF panel_count = 1 THEN <<CreateSinglePanel(scene, scene_events)>>
        ELSE IF scene.scene_type = "combat"
            THEN CreateCombatPanels(scene, scene_events, panel_count)
        ELSE IF scene.scene_type = "dialogue"
            THEN CreateDialoguePanels(scene, scene_events, panel_count)
        ELSE CreateActionPanels(scene, scene_events, panel_count)

-----------------------------------------------------------------------------
(* _plan_comic_pages: the test that opens a new page, and the placement *)

PanelIdBeforeIncrement(panel_counter_) ==
    "panel_" \o ToString(panel_counter_ - 1)

PanelId(panel_counter_) == "panel_" \o ToString(panel_counter_)
PageId(page_number_) == "page_" \o ToString(page_number_)

NeedsNewPageHardCapOnly(pages_, scene) ==
    \/ pages_ = <<>>
    \/ Len(pages_[Len(pages_)].panels) >= MaxPanelsPerPage

NeedsNewPageAtSoftCap(pages_, scene) ==
    \/ pages_ = <<>>
    \/ Len(pages_[Len(pages_)].panels) >= SoftPanelsPerPage

NeedsNewPageOnTension(pages_, scene) ==
    \/ pages_ = <<>>
    \/ Len(pages_[Len(pages_)].panels) >= MaxPanelsPerPage
    \/ scene.dramatic_tension > 7

NeedsNewPage(pages_, scene) ==
    \/ pages_ = <<>>
    \/ Len(pages_[Len(pages_)].panels) >= MaxPanelsPerPage
    \/ /\ Len(pages_[Len(pages_)].panels) >= SoftPanelsPerPage
       /\ scene.dramatic_tension > 7

NewPage(page_number_) ==
    [id |-> PageId(page_number_), page_number |-> page_number_, panels |-> <<>>]

PrependToLastPage(pages_, panel) ==
    [pages_ EXCEPT ![Len(pages_)].panels = <<panel>> \o @]

AppendToFirstPage(pages_, panel) ==
    [pages_ EXCEPT ![1].panels = Append(@, panel)]

AppendToLastPage(pages_, panel) ==
    [pages_ EXCEPT ![Len(pages_)].panels = Append(@, panel)]

-----------------------------------------------------------------------------
(* Missions handed to plan_mission_scenes *)

Shape(event_type, description, speaker_id, participants, dialogue_content) ==
    [event_type |-> event_type, description |-> description,
     speaker_id |-> speaker_id, participants |-> participants,
     dialogue_content |-> dialogue_content]

MakeEvent(id, timestamp, shape, location_id) ==
    [id |-> id, timestamp |-> timestamp, event_type |-> shape.event_type,
     description |-> shape.description, speaker_id |-> shape.speaker_id,
     participants |-> shape.participants,
     dialogue_content |-> shape.dialogue_content,
     location_id |-> location_id]

KnownLocations ==
    <<[id |-> "A", name |-> "Square"], [id |-> "B", name |-> "Harbour"]>>
KnownCharacters == <<"c1", "c2", "c3">>

SpokenLine == Shape("dialogue", {"says"}, "c1", {"c1"}, "line")
CrowdLine == Shape("dialogue", {"says"}, "c1", {"c1", "c2", "c3"}, "line")
SpellCast == Shape("action", {"cast"}, None, {}, None)
Movement == Shape("action", {"move"}, None, {}, None)
CombatBeat == Shape("combat", {}, None, {}, None)
DiceRoll == Shape("roll", {}, None, {}, None)

\* Missions that vary in time: gaps of 0, 30, 31 and 61 minutes, given in
\* any order, with and without a location
Timestamps == {0, 30, 61}
Shapes == {SpokenLine, SpellCast}
LocationIds == {None, "A"}

\* Missions that vary in content: every event at the same minute, in one of
\* two places
LayoutTimestamps == {0}
LayoutShapes == {SpokenLine, CrowdLine, SpellCast, Movement, CombatBeat, DiceRoll}
LayoutLocationIds == {"A", "B"}

\* Missions that vary in place: events with no location or in one of two
\* places, close together or more than the threshold apart
PlaceTimestamps == {0, 61}
PlaceShapes == {SpokenLine, SpellCast}
PlaceLocationIds == {None, "A", "B"}

\* Missions of one stretch of time whose events are listed in any order:
\* two speakers with lines of their own, a line before a crowd, a movement
Reply == Shape("dialogue", {"says"}, "c2", {"c2"}, "reply")

ShuffledTimestamps == {0, 30}
ShuffledShapes == {SpokenLine, Reply, CrowdLine, Movement}
ShuffledLocationIds == {None}

\* the event lists of at most MaxEvents events drawn from the given sets
IsEventList(events, timestamps, shapes, location_ids) ==
    \E n \in 0..MaxEvents :
        \E f \in [1..n -> timestamps \X shapes \X location_ids] :
            events = [k \in 1..n |-> MakeEvent(k, f[k][1], f[k][2], f[k][3])]

NoProbe == [event |-> None, scored |-> FALSE, tension |-> 0, scene_type |-> None]

InitPlanner(timestamps, shapes, location_ids) ==
    /\ pc = "start"
    /\ IsEventList(mission_events, timestamps, shapes, location_ids)
    /\ mission_locations = KnownLocations
    /\ mission_characters = KnownCharacters
    /\ mission_scenes = <<>>
    /\ mission_pages = <<>>
    /\ sorted_events = <<>>
    /\ i = 1
    /\ scene_groups = <<>>
    /\ current_scene_events = <<>>
    /\ current_scene_info = FreshSceneInfo
    /\ scenes = <<>>
    /\ pages = <<>>
    /\ page_number = 1
    /\ panel_counter = 0
    /\ scene_panels = <<>>
    /\ created = <<>>
    /\ probe = NoProbe

\* Events handed to the scorer and the typer on their own: every kind, and
\* every text over words of each keyword class
ScorerWords ==
    {"kill", "final", "attack", "danger", "says", "\"", "help!", "cast", "move"}

InitScorer ==
    /\ pc = "score"
    /\ \E event_type \in EventTypes :
           \E description \in SUBSET ScorerWords :
               probe = [event |-> MakeEvent(1, 0,
                                            Shape(event_type, description,
                                                  None, {}, None),
                                            None),
                        scored |-> FALSE, tension |-> 0, scene_type |-> None]
    /\ mission_events = <<>>
    /\ mission_locations = KnownLocations
    /\ mission_characters = KnownCharacters
    /\ mission_scenes = <<>>
    /\ mission_pages = <<>>
    /\ sorted_events = <<>>
    /\ i = 1
    /\ scene_groups = <<>>
    /\ current_scene_events = <<>>
    /\ current_scene_info = FreshSceneInfo
    /\ scenes = <<>>
    /\ pages = <<>>
    /\ page_number = 1
    /\ panel_counter = 0
    /\ scene_panels = <<>>
    /\ created = <<>>

Init == InitPlanner(Timestamps, Shapes, LocationIds)

InitLayout == InitPlanner(LayoutTimestamps, LayoutShapes, LayoutLocationIds)

InitPlaces == InitPlanner(PlaceTimestamps, PlaceShapes, PlaceLocationIds)

InitShuffled ==
    InitPlanner(ShuffledTimestamps, ShuffledShapes, ShuffledLocationIds)

-----------------------------------------------------------------------------
(* plan_mission_scenes, step by step *)

SortEvents ==
    /\ pc = "start"
    /\ sorted_events' = SortByTimestamp(mission_events)
    /\ pc' = "group"
    /\ i' = 1
    /\ scene_groups' = <<>>
    /\ current_scene_events' = <<>>
    /\ current_scene_info' = FreshSceneInfo
    /\ UNCHANGED <<missionInput, mission_locations, mission_scenes,
                   mission_pages, scenes, pageLocals, probe>>

GroupEvent ==
    /\ pc = "group"
    /\ i <= Len(sorted_events)
    /\ LET event == sorted_events[i]
           should_break ==
               ShouldBreak(current_scene_events, current_scene_info, event)
           finalize == should_break /\ current_scene_events # <<>>
           open_events == IF finalize THEN <<>> ELSE current_scene_events
           open_info == IF finalize THEN FreshSceneInfo ELSE current_scene_info
       IN  /\ scene_groups' =
                 IF finalize
                 THEN FinalizeScene(scene_groups, current_scene_info,
                                    current_scene_events)
                 ELSE scene_groups
           /\ current_scene_events' = Append(open_events, event)
           /\ current_scene_info' = UpdateSceneInfo(open_info, event)
    /\ i' = i + 1
    /\ UNCHANGED <<pc, missionInput, mission_locations, mission_scenes,
                   mission_pages, sorted_events, scenes, pageLocals, probe>>

FlushGroup ==
    /\ pc = "group"
    /\ i > Len(sorted_events)
    /\ scene_groups' =
          IF sorted_events = <<>> THEN <<>>
          ELSE IF current_scene_events # <<>>
          THEN FinalizeScene(scene_groups, current_scene_info,
                             current_scene_events)
          ELSE scene_groups
    /\ pc' = IF scene_groups' = <<>> THEN "pages" ELSE "create"
    /\ i' = 1
    /\ scenes' = <<>>
    /\ UNCHANGED <<missionInput, mission_locations, mission_scenes,
                   mission_pages, sorted_events, current_scene_events,
                   current_scene_info, pageLocals, probe>>

CreateScene ==
    /\ pc = "create"
    /\ i <= Len(scene_groups)
    /\ LET info == scene_groups[i].info
           events == scene_groups[i].events
       IN  IF events = <<>>
           THEN /\ pc' = "failed"
                /\ UNCHANGED <<i, scenes, mission_locations>>
           ELSE /\ scenes' = Append(scenes, SceneFromEvents(i, info, events))
                /\ mission_locations' =
                      IF InferLocation(info, events) = None
                      THEN Append(mission_locations,
                                  GenericLocation(PlaceholderLocationId(i)))
                      ELSE mission_locations
                /\ pc' = IF i = Len(scene_groups) THEN "pages" ELSE "create"
                /\ i' = IF i = Len(scene_groups) THEN 1 ELSE i + 1
    /\ UNCHANGED <<missionInput, mission_scenes, mission_pages, sorted_events,
                   groupLocals, pageLocals, probe>>

ExpandScene ==
    /\ pc = "pages"
    /\ i <= Len(scenes)
    /\ LET scene == scenes[i]
           panels_needed == CalculatePanelsNeeded(scene)
           panels == CreatePanelsForScene(scene, panels_needed, mission_events)
       IN  /\ created' = Append(created, panels)
           /\ scene_panels' = panels
           /\ pc' = IF panels = <<>> THEN "pages" ELSE "panels"
           /\ i' = IF panels = <<>> THEN i + 1 ELSE i
    /\ UNCHANGED <<missionInput, mission_locations, mission_scenes,
                   mission_pages, sorted_events, groupLocals, scenes, pages,
                   page_number, panel_counter, probe>>

PlacePanel ==
    /\ pc = "panels"
    /\ scene_panels # <<>>
    /\ LET scene == scenes[i]
           panel == Head(scene_panels)
           new_page == NeedsNewPage(pages, scene)
           open_pages == IF new_page THEN Append(pages, NewPage(page_number))
                         ELSE pages
       IN  /\ page_number' = IF new_page THEN page_number + 1 ELSE page_number
           /\ panel_counter' = panel_counter + 1
           /\ pages' = AppendToLastPage(
                           open_pages,
                           [panel EXCEPT !.id = PanelId(panel_counter + 1)])
    /\ scene_panels' = Tail(scene_panels)
    /\ pc' = IF Tail(scene_panels) = <<>> THEN "pages" ELSE "panels"
    /\ i' = IF Tail(scene_panels) = <<>> THEN i + 1 ELSE i
    /\ UNCHANGED <<missionInput, mission_locations, mission_scenes,
                   mission_pages, sorted_events, groupLocals, scenes, created,
                   probe>>

AttachResults ==
    /\ pc = "pages"
    /\ i > Len(scenes)
    /\ mission_scenes' = scenes
    /\ mission_pages' = pages
    /\ pc' = "done"
    /\ UNCHANGED <<missionInput, mission_locations, sorted_events, i,
                   groupLocals, scenes, pageLocals, probe>>

\* _calculate_event_tension and _determine_scene_type applied to one event
ScoreEvent ==
    /\ pc = "score"
    /\ probe' = [probe EXCEPT !.scored = TRUE,
                              !.tension = CalculateEventTension(probe.event)]
    /\ pc' = "type"
    /\ UNCHANGED <<missionInput, mission_locations, mission_scenes,
                   mission_pages, sorted_events, i, groupLocals, scenes,
                   pageLocals>>

TypeEvent ==
    /\ pc = "type"
    /\ probe' = [probe EXCEPT !.scene_type = DetermineSceneType(probe.event)]
    /\ pc' = "typed"
    /\ UNCHANGED <<missionInput, mission_locations, mission_scenes,
                   mission_pages, sorted_events, i, groupLocals, scenes,
                   pageLocals>>

NextScorer ==
    \/ ScoreEvent
    \/ TypeEvent

Next ==
    \/ SortEvents
    \/ GroupEvent
    \/ FlushGroup
    \/ CreateScene
    \/ ExpandScene
    \/ PlacePanel
    \/ AttachResults

Spec == Init /\ [][Next]_vars

SpecLayout == InitLayout /\ [][Next]_vars

SpecPlaces == InitPlaces /\ [][Next]_vars

SpecShuffled == InitShuffled /\ [][Next]_vars

SpecScorer == InitScorer /\ [][NextScorer]_vars

-----------------------------------------------------------------------------
(* Vocabulary of the properties *)

RECURSIVE Flatten(_)
Flatten(seqs) ==
    IF seqs = <<>> THEN <<>> ELSE Head(seqs) \o Flatten(Tail(seqs))

Range(seq) == {seq[k] : k \in 1..Len(seq)}

\* _group_events_into_scenes has returned
Grouped == pc \in {"create", "pages", "panels", "done"}
\* plan_mission_scenes has returned
Planned == pc = "done"
\* the scorer has returned
Scored == pc \in {"type", "typed"}

GroupedEvents ==
    Flatten([k \in 1..Len(scene_groups) |-> scene_groups[k].events])

EventWithId(id) == CHOOSE e \in Range(mission_events) : e.id = id
SceneWithId(id) == CHOOSE s \in Range(scenes) : s.id = id
Members(scene) == [k \in 1..Len(scene.events) |-> EventWithId(scene.events[k])]
MemberLocations(scene) ==
    {Members(scene)[k].location_id : k \in 1..Len(scene.events)} \ {None}
PanelTension(panel) == SceneWithId(panel.scene_id).dramatic_tension

GivenOutOfOrder ==
    \E a, b \in 1..Len(mission_events) :
        a < b /\ mission_events[a].timestamp > mission_events[b].timestamp
GivenWithTies ==
    \E a, b \in 1..Len(mission_events) :
        a < b /\ mission_events[a].timestamp = mission_events[b].timestamp

-----------------------------------------------------------------------------
(* C1: the member lists of the scene groups, concatenated in scene order,   *)
(* are the input stably sorted by timestamp: every input event occurs once, *)
(* timestamps never decrease, and events of equal timestamp keep their      *)
(* input order.                                                            *)
C1_GroupsAreStableSortOfInput ==
    Grouped =>
        LET flat == GroupedEvents
        IN  /\ Len(flat) = Len(mission_events)
            /\ \A k \in 1..Len(mission_events) :
                   \E p \in 1..Len(flat) : flat[p] = mission_events[k]
            /\ \A p, q \in 1..Len(flat) :
                   p < q =>
                       \/ flat[p].timestamp < flat[q].timestamp
                       \/ /\ flat[p].timestamp = flat[q].timestamp
                          /\ flat[p].id < flat[q].id

C1_Witness ==
    /\ Planned
    /\ Len(scene_groups) >= 2
    /\ GivenOutOfOrder
    /\ GivenWithTies

(* C6: no scene group is empty, the rejection of an empty group is never    *)
(* reached, and an empty event list ends with no scene and no page.         *)
C6_NoEmptyGroup ==
    /\ \A k \in 1..Len(scene_groups) : scene_groups[k].events # <<>>
    /\ pc # "failed"
    /\ (Planned /\ mission_events = <<>>) =>
           (mission_scenes = <<>> /\ mission_pages = <<>>)

C6_Witness ==
    /\ Planned
    /\ Len(scene_groups) >= 2
    /\ Len(mission_scenes) = Len(scene_groups)

(* C9: every scene starts no later than it ends; its start is the timestamp *)
(* of its first member event and its end that of its last member event.     *)
C9_SceneBounds ==
    \A k \in 1..Len(scenes) :
        LET scene == scenes[k]
            members == Members(scene)
        IN  /\ scene.start_time <= scene.end_time
            /\ scene.start_time = members[1].timestamp
            /\ scene.end_time = members[Len(members)].timestamp

C9_Witness ==
    /\ Planned
    /\ GivenOutOfOrder
    /\ \E k \in 1..Len(mission_scenes) :
           mission_scenes[k].start_time < mission_scenes[k].end_time

(* C10: every scene has a location: the one its member events supply when   *)
(* any does, otherwise the placeholder made for the scene, which is then    *)
(* among the mission's locations.                                           *)
C10_SceneLocated ==
    \A k \in 1..Len(scenes) :
        LET scene == scenes[k]
            supplied == MemberLocations(scene)
        IN  /\ scene.location_id # None
            /\ supplied # {} => supplied = {scene.location_id}
            /\ supplied = {} =>
                   /\ scene.location_id = "location_" \o ToString(k)
                   /\ \E j \in 1..Len(mission_locations) :
                          /\ mission_locations[j].id = scene.location_id
                          /\ mission_locations[j].name = "Unknown Location"

C10_Witness ==
    /\ Planned
    /\ \E k \in 1..Len(mission_scenes) :
           MemberLocations(mission_scenes[k]) = {}
    /\ \E k \in 1..Len(mission_scenes) :
           /\ MemberLocations(mission_scenes[k]) # {}
           /\ \E m \in 1..Len(mission_scenes[k].events) :
                  Members(mission_scenes[k])[m].location_id = None

(* C7, as claimed: no step of plan_mission_scenes changes the mission's     *)
(* characters, locations or events.                                         *)
C7_InputCollectionsUntouched ==
    [][/\ mission_characters' = mission_characters
       /\ mission_locations' = mission_locations
       /\ mission_events' = mission_events]_vars

(* C7, amended: characters and events are never changed; locations change   *)
(* only when a scene is created none of whose member events supplies a      *)
(* location, and then by one placeholder appended after the locations       *)
(* already there.                                                           *)
C7_OnlyPlaceholdersAdded ==
    [][/\ mission_characters' = mission_characters
       /\ mission_events' = mission_events
       /\ IF /\ pc = "create"
             /\ \A m \in 1..Len(scene_groups[i].events) :
                    scene_groups[i].events[m].location_id = None
          THEN mission_locations' =
                   Append(mission_locations,
                          [id |-> "location_" \o ToString(i),
                           name |-> "Unknown Location"])
          ELSE mission_locations' = mission_locations]_vars

C7_Witness ==
    /\ Planned
    /\ Len(mission_locations) > Len(KnownLocations)
    /\ Len(mission_scenes) >= 2
    /\ \E k \in 1..Len(mission_scenes) : mission_scenes[k].location_id = "A"

-----------------------------------------------------------------------------
(* Properties of the scorer *)

HasHigh(event) == \E w \in HighTensionKeywords : w \in event.description
HasMedium(event) == \E w \in MediumTensionKeywords : w \in event.description
HasMarker(event) == \E w \in DialogueMarkers : w \in event.description
HasDistress(event) == \E w \in DistressWords : w \in event.description

BaseWeight ==
    [combat |-> 8, action |-> 6, roll |-> 4, dialogue |-> 2, narration |-> 0,
     scene_transition |-> 0]

DistressBonus(event) == IF HasMarker(event) /\ HasDistress(event) THEN 3 ELSE 0

(* C4, as claimed: the score is min(1.0, base + keyword bonus + distress     *)
(* bonus) where the keyword bonus is 0.3 with a high-tension keyword,        *)
(* otherwise 0.2 with a medium-tension keyword, otherwise 0.                 *)
C4_KeywordBonusesExclusive ==
    Scored =>
        probe.tension =
            Min(10, BaseWeight[probe.event.event_type]
                      + (IF HasHigh(probe.event) THEN 3
                         ELSE IF HasMedium(probe.event) THEN 2 ELSE 0)
                      + DistressBonus(probe.event))

(* C4, amended: the score is min(1.0, base + high bonus + medium bonus +     *)
(* distress bonus): 0.3 with a high-tension keyword and, independently, 0.2  *)
(* with a medium-tension keyword, so both are applied when both are present. *)
C4_KeywordBonusesStack ==
    Scored =>
        probe.tension =
            Min(10, BaseWeight[probe.event.event_type]
                      + (IF HasHigh(probe.event) THEN 3 ELSE 0)
                      + (IF HasMedium(probe.event) THEN 2 ELSE 0)
                      + DistressBonus(probe.event))

C4_Witness ==
    /\ Scored
    /\ HasHigh(probe.event) /\ HasMedium(probe.event)
    /\ HasMarker(probe.event) /\ ~HasDistress(probe.event)
    /\ probe.event.event_type = "dialogue"
    /\ probe.tension = 7

(* C5: the score lies in [0, 1], and with no keyword and no marker matching  *)
(* it is the base weight of the event kind.                                  *)
C5_TensionBounded ==
    Scored =>
        /\ probe.tension >= 0 /\ probe.tension <= 10
        /\ (probe.event.description
              \cap (HighTensionKeywords \cup MediumTensionKeywords
                      \cup DialogueMarkers \cup DistressWords) = {}) =>
               probe.tension = BaseWeight[probe.event.event_type]

C5_Witness ==
    /\ Scored
    /\ probe.event.event_type = "combat"
    /\ HasHigh(probe.event) /\ HasMedium(probe.event)
    /\ HasMarker(probe.event) /\ HasDistress(probe.event)
    /\ probe.tension = 10

-----------------------------------------------------------------------------
(* Properties of the panels and pages *)

PanelsPlanned(k) == CalculatePanelsNeeded(scenes[k])

(* C3, as claimed: the panels created for a scene number between 1 and 4     *)
(* and as many as _calculate_panels_needed computed.                         *)
C3_PanelsEqualBudget ==
    \A k \in 1..Len(created) :
        /\ Len(created[k]) >= 1 /\ Len(created[k]) <= 4
        /\ Len(created[k]) = PanelsPlanned(k)

(* C3, amended: the computed count is between 1 and 4; the panels created    *)
(* for a scene number at most that count (possibly none) and exactly one     *)
(* when the count is 1.                                                      *)
C3_PanelsWithinBudget ==
    \A k \in 1..Len(created) :
        /\ PanelsPlanned(k) >= 1 /\ PanelsPlanned(k) <= 4
        /\ Len(created[k]) <= PanelsPlanned(k)
        /\ PanelsPlanned(k) = 1 => Len(created[k]) = 1

C3_Witness ==
    /\ Planned
    /\ \E k \in 1..Len(created) : created[k] = <<>>
    /\ \E k \in 1..Len(created) : Len(created[k]) = 3 /\ PanelsPlanned(k) = 4
    /\ \E k \in 1..Len(created) : Len(created[k]) = 1 /\ PanelsPlanned(k) = 1

(* C2, as claimed: every page holds at most 6 panels, and a page of more     *)
(* than 4 panels holds no panel of a scene whose tension exceeds 0.7.        *)
C2_NoHighTensionOnLongPage ==
    Planned =>
        \A p \in 1..Len(mission_pages) :
            /\ Len(mission_pages[p].panels) <= 6
            /\ Len(mission_pages[p].panels) > 4 =>
                   \A n \in 1..Len(mission_pages[p].panels) :
                       PanelTension(mission_pages[p].panels[n]) <= 7

(* C2, amended: every page holds at most 6 panels, and no panel placed       *)
(* fifth or sixth on a page belongs to a scene whose tension exceeds 0.7.    *)
C2_NoHighTensionPastSoftCap ==
    Planned =>
        \A p \in 1..Len(mission_pages) :
            /\ Len(mission_pages[p].panels) <= 6
            /\ \A n \in 1..Len(mission_pages[p].panels) :
                   n > 4 => PanelTension(mission_pages[p].panels[n]) <= 7

C2_Witness ==
    /\ Planned
    /\ \E p \in 1..Len(mission_pages) :
           /\ Len(mission_pages[p].panels) > 4
           /\ \E n \in 1..4 : PanelTension(mission_pages[p].panels[n]) > 7

(* C8: the pages, read in page order and panel order, hold exactly the       *)
(* panels created for the scenes, each once, in scene order and panel order. *)
C8_PagesCoverPanelsInOrder ==
    Planned =>
        LET placed == Flatten([p \in 1..Len(mission_pages) |->
                                  mission_pages[p].panels])
            made == Flatten(created)
        IN  /\ Len(placed) = Len(made)
            /\ \A n \in 1..Len(placed) :
                   [placed[n] EXCEPT !.id = "temp_id"] = made[n]

C8_Witness ==
    /\ Planned
    /\ Len(mission_pages) >= 2
    /\ Len(created) >= 2
    /\ \E k \in 1..Len(created) : Len(created[k]) >= 2

-----------------------------------------------------------------------------
(* Properties of the scenes *)

MaxOf(numbers) == CHOOSE n \in numbers : \A m \in numbers : m <= n

MemberTensions(scene) ==
    {CalculateEventTension(Members(scene)[k]) : k \in 1..Len(scene.events)}

(* C11: the dramatic tension of a scene is the greatest score of its own     *)
(* member events; the tension of an earlier scene does not carry over.       *)
C11_TensionIsMaxOfMembers ==
    \A k \in 1..Len(scenes) :
        scenes[k].dramatic_tension = MaxOf(MemberTensions(scenes[k]))

C11_Witness ==
    /\ Planned
    /\ \E k \in 1..Len(mission_scenes) :
           /\ k > 1
           /\ mission_scenes[k].dramatic_tension
                  < mission_scenes[k - 1].dramatic_tension
    /\ \E k \in 1..Len(mission_scenes) :
           LET members == Members(mission_scenes[k])
           IN  /\ Len(members) >= 2
               /\ CalculateEventTension(members[Len(members)])
                      < mission_scenes[k].dramatic_tension

-----------------------------------------------------------------------------
(* _calculate_panels_needed on its own *)

\* Scenes handed to the budget calculation: every scene type, casts of
\* zero, two and three characters, every tension in tenths, and up to
\* MaxSceneEvents member events
MaxSceneEvents == 7

BudgetCasts == {{}, {"c1", "c2"}, {"c1", "c2", "c3"}}

IdlePlanner ==
    /\ mission_events = <<>>
    /\ mission_locations = KnownLocations
    /\ mission_characters = KnownCharacters
    /\ mission_scenes = <<>>
    /\ mission_pages = <<>>
    /\ sorted_events = <<>>
    /\ i = 1
    /\ scene_groups = <<>>
    /\ current_scene_events = <<>>
    /\ current_scene_info = FreshSceneInfo
    /\ scenes = <<>>
    /\ pages = <<>>
    /\ page_number = 1
    /\ panel_counter = 0
    /\ scene_panels = <<>>
    /\ created = <<>>

InitBudget ==
    /\ pc = "budget"
    /\ \E scene_type \in {"combat", "action", "dialogue"} :
           \E cast \in BudgetCasts :
               \E tension \in 0..10 :
                   \E event_count \in 1..MaxSceneEvents :
                       probe = [scene |->
                                    [id |-> SceneId(1),
                                     start_time |-> 0,
                                     end_time |-> 0,
                                     location_id |-> "A",
                                     events |-> [k \in 1..event_count |-> k],
                                     main_characters |-> cast,
                                     scene_type |-> scene_type,
                                     dramatic_tension |-> tension],
                                panels_needed |-> 0]
    /\ IdlePlanner

CountPanels ==
    /\ pc = "budget"
    /\ probe' = [probe EXCEPT
                   !.panels_needed = CalculatePanelsNeeded(probe.scene)]
    /\ pc' = "counted"
    /\ UNCHANGED <<missionInput, mission_locations, mission_scenes,
                   mission_pages, sorted_events, i, groupLocals, scenes,
                   pageLocals>>

NextBudget ==
    \/ CountPanels

SpecBudget == InitBudget /\ [][NextBudget]_vars

Counted == pc = "counted"

TypeAllowance(scene) ==
    CASE scene.scene_type = "combat" -> 3
      [] scene.scene_type = "action" -> 2
      [] OTHER -> 1

CastAllowance(scene) ==
    IF Cardinality(scene.main_characters) > 2 THEN 1 ELSE 0

TensionAllowance(scene) ==
    IF scene.dramatic_tension > 8 THEN 2
    ELSE IF scene.dramatic_tension > 5 THEN 1
    ELSE 0

LengthAllowance(scene) ==
    IF Len(scene.events) > 5 THEN 1 ELSE 0

(* C12: the panel budget of a scene is 3, 2 or 1 by scene type, plus one    *)
(* for more than two main characters, plus two for tension above 0.8 or one *)
(* for tension above 0.5, plus one for more than five member events, kept   *)
(* within 1..4; an action scene of tension 0.9 with seven events gets 4.    *)
C12_BudgetFormula ==
    Counted =>
        LET scene == probe.scene
            total == TypeAllowance(scene) + CastAllowance(scene)
                       + TensionAllowance(scene) + LengthAllowance(scene)
        IN  /\ probe.panels_needed = Max(1, Min(4, total))
            /\ (/\ scene.scene_type = "action"
                /\ scene.dramatic_tension = 9
                /\ Len(scene.events) = 7) => probe.panels_needed = 4

C12_Witness ==
    /\ Counted
    /\ probe.scene.scene_type = "action"
    /\ probe.scene.dramatic_tension = 9
    /\ Len(probe.scene.events) = 7
    /\ probe.scene.main_characters = {}
    /\ probe.panels_needed = 4

-----------------------------------------------------------------------------
(* _create_panels_for_scene on its own: a scene of the plan, any budget *)

\* Budgets handed to _create_panels_for_scene: from none to one more than
\* the most _calculate_panels_needed returns
Budgets == 0..(MaxPanelsPerScene + 1)

\* One call of _create_panels_for_scene, on a scene the planner has built
\* from the mission and with a budget of the caller's choosing
AllocatePanels ==
    /\ pc = "pages"
    /\ \E k \in 1..Len(scenes) :
           \E panel_count \in Budgets :
               probe' = [scene |-> scenes[k],
                         panel_count |-> panel_count,
                         panels |-> CreatePanelsForScene(scenes[k], panel_count,
                                                         mission_events)]
    /\ pc' = "allocated"
    /\ UNCHANGED <<missionInput, mission_locations, mission_scenes,
                   mission_pages, sorted_events, i, groupLocals, scenes,
                   pageLocals>>

NextAllocator ==
    \/ SortEvents
    \/ GroupEvent
    \/ FlushGroup
    \/ CreateScene
    \/ AllocatePanels

SpecAllocator == InitLayout /\ [][NextAllocator]_vars

Allocated == pc = "allocated"

(* C13: whatever the scene and whatever the budget, _create_panels_for_scene *)
(* returns at most panel_count panels.                                       *)
C13_NeverMoreThanBudget ==
    Allocated => Len(probe.panels) <= probe.panel_count

C13_Witness ==
    /\ Allocated
    /\ probe.scene.scene_type = "action"
    /\ Len(SelectSeq(Members(probe.scene),
                     LAMBDA e : e.event_type = "action")) = 3
    /\ probe.panel_count = 2
    /\ Len(probe.panels) = 2

-----------------------------------------------------------------------------
(* Properties of the panels and pages *)

(* C14: the panels built for one scene are numbered 1, 2, ..., in the order *)
(* of the list, without a gap or a repeat.                                  *)
C14_PanelNumbersCountUp ==
    \A k \in 1..Len(created) :
        \A n \in 1..Len(created[k]) : created[k][n].panel_number = n

C14_Witness ==
    /\ Planned
    /\ \E k \in 1..Len(created) :
           /\ mission_scenes[k].scene_type = "combat"
           /\ Len(created[k]) = 3
           /\ created[k][2].role = "main_action"
           /\ created[k][3].role = "resolution"
           /\ \A e \in Range(Members(mission_scenes[k])) :
                  e.event_type = "action"
    /\ \E k \in 1..Len(created) :
           /\ mission_scenes[k].scene_type = "action"
           /\ Len(created[k]) >= 2

(* C15: the i-th page carries page_number i, counting from 1, and the panels *)
(* read page after page carry the ids panel_1, panel_2, ..., panel_N.        *)
C15_PagesAndPanelsNumbered ==
    LET placed == Flatten([p \in 1..Len(pages) |-> pages[p].panels])
    IN  /\ \A p \in 1..Len(pages) : pages[p].page_number = p
        /\ \A n \in 1..Len(placed) : placed[n].id = "panel_" \o ToString(n)
        /\ Planned => mission_pages = pages

C15_Witness ==
    /\ Planned
    /\ Len(mission_pages) >= 2
    /\ mission_pages[2].page_number = 2
    /\ Len(mission_pages[1].panels) = 6
    /\ mission_pages[2].panels[1].id = "panel_7"

-----------------------------------------------------------------------------
(* _group_events_into_scenes called a second time on the same agent *)

\* The locals at the entry of _group_events_into_scenes; left_over is what
\* the previous call on this agent ended with
GroupingEntryKeepingInfo(left_over) ==
    [scene_groups |-> <<>>,
     current_scene_events |-> <<>>,
     current_scene_info |-> left_over.current_scene_info]

GroupingEntry(left_over) ==
    [scene_groups |-> <<>>,
     current_scene_events |-> <<>>,
     current_scene_info |-> FreshSceneInfo]

\* The caller keeps the first result and calls again with the same list
GroupAgain ==
    /\ pc \in {"create", "pages"}
    /\ probe = NoProbe
    /\ probe' = [first |-> scene_groups]
    /\ LET entry == GroupingEntry(
                        [scene_groups |-> scene_groups,
                         current_scene_events |-> current_scene_events,
                         current_scene_info |-> current_scene_info])
       IN  /\ scene_groups' = entry.scene_groups
           /\ current_scene_events' = entry.current_scene_events
           /\ current_scene_info' = entry.current_scene_info
    /\ i' = 1
    /\ pc' = "group"
    /\ UNCHANGED <<missionInput, mission_locations, mission_scenes,
                   mission_pages, sorted_events, scenes, pageLocals>>

NextTwice ==
    \/ SortEvents
    \/ GroupEvent
    \/ FlushGroup
    \/ GroupAgain

SpecTwice == Init /\ [][NextTwice]_vars

GroupedTwice == Grouped /\ probe # NoProbe

-----------------------------------------------------------------------------
(* ComicBookGenerator.generate_comic_from_mission *)

\* What the parser can return: events without a location, spoken lines,
\* movements and rolls, at two times more than a scene apart
ParsedTimestamps == {0, 61}
ParsedShapes == {SpokenLine, Movement, DiceRoll}
ParsedLocationIds == {None}

Stages == <<"parse", "plan", "describe", "illustrate", "persist">>

\* current_status in probe, progress in tenths. ran and raised record the
\* stages entered so far and the stage that raised; they are not fields of
\* ProcessingStatus
IdleStatus ==
    [status |-> "idle", progress |-> 0, current_step |-> "Waiting for mission",
     error_message |-> None, ran |-> <<>>, raised |-> None]

StartingStatus ==
    [status |-> "starting", progress |-> 0, current_step |-> "Initializing",
     error_message |-> None, ran |-> <<>>, raised |-> None]

EnterStage(status, stage, current_step, progress) ==
    [status EXCEPT !.current_step = current_step,
                   !.progress = progress,
                   !.ran = Append(@, stage)]

\* except Exception: the status is marked and the exception raised again
FailedStatus(status, stage) ==
    [status EXCEPT !.status = "failed",
                   !.error_message = "error",
                   !.raised = stage]

CompletedStatus(status) ==
    [status EXCEPT !.status = "completed",
                   !.progress = 10,
                   !.current_step = "Complete"]

\* Where control goes after a stage: out of the function when it raised
AfterStageCarryingOn(raises, next_pc) == next_pc

AfterStage(raises, next_pc) == IF raises THEN "raised" ELSE next_pc

InitPipeline ==
    /\ pc = "generate"
    /\ probe = IdleStatus
    /\ IdlePlanner

BeginRun ==
    /\ pc = "generate"
    /\ probe' = StartingStatus
    /\ pc' = "parse"
    /\ UNCHANGED <<missionInput, mission_locations, mission_scenes,
                   mission_pages, sorted_events, i, groupLocals, scenes,
                   pageLocals>>

ParseMission ==
    /\ pc = "parse"
    /\ \E raises \in BOOLEAN :
           LET entered == EnterStage(probe, "parse", "Parsing Discord logs", 1)
           IN  /\ probe' = IF raises THEN FailedStatus(entered, "parse")
                           ELSE entered
               /\ pc' = AfterStage(raises, "plan")
               /\ IF raises
                  THEN UNCHANGED <<mission_events, mission_locations>>
                  ELSE /\ IsEventList(mission_events', ParsedTimestamps,
                                      ParsedShapes, ParsedLocationIds)
                       /\ mission_locations' = <<>>
    /\ UNCHANGED <<mission_characters, mission_scenes, mission_pages,
                   sorted_events, i, groupLocals, scenes, pageLocals>>

BeginPlanning ==
    /\ pc = "plan"
    /\ probe' = EnterStage(probe, "plan", "Planning scenes", 3)
    /\ pc' = "start"
    /\ UNCHANGED <<missionInput, mission_locations, mission_scenes,
                   mission_pages, sorted_events, i, groupLocals, scenes,
                   pageLocals>>

GeneratePanelPrompts ==
    /\ pc = "done"
    /\ \E raises \in BOOLEAN :
           LET entered == EnterStage(probe, "describe",
                                     "Generating visual descriptions", 5)
           IN  /\ probe' = IF raises THEN FailedStatus(entered, "describe")
                           ELSE entered
               /\ pc' = AfterStage(raises, "illustrate")
    /\ UNCHANGED <<missionInput, mission_locations, mission_scenes,
                   mission_pages, sorted_events, i, groupLocals, scenes,
                   pageLocals>>

GenerateAllPanelImages ==
    /\ pc = "illustrate"
    /\ \E raises \in BOOLEAN :
           LET entered == EnterStage(probe, "illustrate", "Generating images", 7)
           IN  /\ probe' = IF raises THEN FailedStatus(entered, "illustrate")
                           ELSE entered
               /\ pc' = AfterStage(raises, "persist")
    /\ UNCHANGED <<missionInput, mission_locations, mission_scenes,
                   mission_pages, sorted_events, i, groupLocals, scenes,
                   pageLocals>>

SaveMissionData ==
    /\ pc = "persist"
    /\ \E raises \in BOOLEAN :
           LET entered == EnterStage(probe, "persist", "Finalizing comic", 9)
           IN  /\ probe' = IF raises THEN FailedStatus(entered, "persist")
                           ELSE CompletedStatus(entered)
               /\ pc' = AfterStage(raises, "returned")
    /\ UNCHANGED <<missionInput, mission_locations, mission_scenes,
                   mission_pages, sorted_events, i, groupLocals, scenes,
                   pageLocals>>

NextPipeline ==
    \/ BeginRun
    \/ ParseMission
    \/ BeginPlanning
    \/ SortEvents
    \/ GroupEvent
    \/ FlushGroup
    \/ CreateScene
    \/ ExpandScene
    \/ PlacePanel
    \/ AttachResults
    \/ GeneratePanelPrompts
    \/ GenerateAllPanelImages
    \/ SaveMissionData

SpecPipeline == InitPipeline /\ [][NextPipeline]_vars

Planning == pc \in {"start", "group", "create", "pages", "panels"}

(* C17: the stages of a run are entered in the order parse, plan, describe, *)
(* illustrate, persist, each at most once; planning runs between the return *)
(* of parsing and the start of description; after a stage has raised no     *)
(* later stage is entered and the status is 'failed'.                       *)
C17_StagesInOrderAndStopOnRaise ==
    /\ probe.ran = SubSeq(Stages, 1, Len(probe.ran))
    /\ Planning => probe.ran = <<"parse", "plan">>
    /\ Len(probe.ran) >= 3 => (~Planning /\ mission_scenes = scenes)
    /\ probe.raised # None =>
           /\ probe.status = "failed"
           /\ probe.ran[Len(probe.ran)] = probe.raised
    /\ probe.status = "completed" => (probe.ran = Stages /\ probe.raised = None)

C17_Witness ==
    /\ probe.raised = "describe"
    /\ probe.status = "failed"
    /\ probe.ran = <<"parse", "plan", "describe">>
    /\ Len(mission_scenes) >= 2

-----------------------------------------------------------------------------
(* Properties of the scene breaks *)

Minutes(earlier, later) == later.timestamp - earlier.timestamp

\* The grounds other than time on which event closes a scene whose
\* accumulator is info
NamesOtherLocation(info, event) ==
    /\ event.location_id # None
    /\ info.location # None
    /\ event.location_id # info.location

ChangesType(info, event) == DetermineSceneType(event) # info.type

DialogueToAction(info, event) ==
    info.type = "dialogue" /\ DetermineSceneType(event) = "action"

(* C18: consecutive events of the sorted input share a scene only when the  *)
(* later one is at most 30 minutes after the earlier one; a gap of more     *)
(* than 30 minutes always separates them, and a gap of 30 minutes or less   *)
(* separates them only when the location or the type gives a reason.        *)
C18_ThirtyMinuteRule ==
    Grouped =>
        /\ GroupedEvents = sorted_events
        /\ \A k \in 1..Len(scene_groups) :
               LET events == scene_groups[k].events
               IN  \A n \in 1..(Len(events) - 1) :
                       Minutes(events[n], events[n + 1]) <= 30
        /\ \A k \in 1..(Len(scene_groups) - 1) :
               LET closed == scene_groups[k]
                   last == closed.events[Len(closed.events)]
                   first == scene_groups[k + 1].events[1]
               IN  \/ Minutes(last, first) > 30
                   \/ NamesOtherLocation(closed.info, first)
                   \/ /\ ChangesType(closed.info, first)
                      /\ ~DialogueToAction(closed.info, first)

C18_Witness ==
    /\ Grouped
    /\ Len(scene_groups) = 2
    /\ Len(scene_groups[1].events) = 2
    /\ scene_groups[1].events[1].timestamp = 0
    /\ scene_groups[1].events[2].timestamp = 30
    /\ scene_groups[2].events[1].timestamp = 61
    /\ \A e \in Range(sorted_events) :
           e.location_id = "A" /\ DetermineSceneType(e) = "dialogue"

\* The loop of _group_events_into_scenes is about to take an event while a
\* scene is open
Incoming == sorted_events[i]

SceneOpen ==
    /\ pc = "group"
    /\ i <= Len(sorted_events)
    /\ current_scene_events # <<>>

NoTimeGap ==
    Minutes(current_scene_events[Len(current_scene_events)], Incoming) <= 30

ClosesOpenScene ==
    /\ scene_groups' = Append(scene_groups,
                              [info |-> current_scene_info,
                               events |-> current_scene_events])
    /\ current_scene_events' = <<Incoming>>

AbsorbsIntoOpenScene ==
    /\ scene_groups' = scene_groups
    /\ current_scene_events' = Append(current_scene_events, Incoming)

\* The break that has just been made: the scene closed last, and the
\* event that closed it
JustClosed ==
    /\ pc = "group"
    /\ scene_groups # <<>>
    /\ Len(current_scene_events) = 1

LastClosed == scene_groups[Len(scene_groups)]

NoTimeGapAtBreak ==
    Minutes(LastClosed.events[Len(LastClosed.events)],
            current_scene_events[1]) <= 30

(* C19: with no gap in time and no change of type, the incoming event       *)
(* closes the open scene exactly when it names a location, the open scene   *)
(* has recorded one, and the two differ; otherwise it is absorbed.          *)
C19_LocationBreak ==
    [][(/\ SceneOpen
        /\ NoTimeGap
        /\ ~ChangesType(current_scene_info, Incoming))
       => IF NamesOtherLocation(current_scene_info, Incoming)
          THEN ClosesOpenScene
          ELSE AbsorbsIntoOpenScene]_vars

C19_Witness ==
    /\ JustClosed
    /\ NoTimeGapAtBreak
    /\ ~ChangesType(LastClosed.info, current_scene_events[1])
    /\ NamesOtherLocation(LastClosed.info, current_scene_events[1])
    /\ Len(LastClosed.events) = 2
    /\ LastClosed.events[1].location_id = None

(* C20: with no gap in time and no change of location, an incoming event of *)
(* another derived type closes the open scene unless the change is from     *)
(* dialogue to action, which is absorbed; action to dialogue closes it.     *)
C20_TypeBreak ==
    [][(/\ SceneOpen
        /\ NoTimeGap
        /\ ~NamesOtherLocation(current_scene_info, Incoming)
        /\ ChangesType(current_scene_info, Incoming))
       => IF DialogueToAction(current_scene_info, Incoming)
          THEN AbsorbsIntoOpenScene
          ELSE ClosesOpenScene]_vars

C20_Witness ==
    /\ JustClosed
    /\ NoTimeGapAtBreak
    /\ ~NamesOtherLocation(LastClosed.info, current_scene_events[1])
    /\ LastClosed.info.type = "action"
    /\ DetermineSceneType(current_scene_events[1]) = "dialogue"
    /\ Len(LastClosed.events) = 2
    /\ DetermineSceneType(LastClosed.events[1]) = "dialogue"

-----------------------------------------------------------------------------
(* Properties of the scene type of an event *)

Typed == pc = "typed"

NamesCombat(event) ==
    event.description \cap {"attack", "cast", "fight", "battle", "damage"} # {}

NamesMovement(event) ==
    event.description \cap {"move", "jump", "climb", "run", "fly"} # {}

(* C21: a combat event is typed combat, a roll action, a dialogue event     *)
(* dialogue; an action event is typed combat when it has a combat keyword,  *)
(* else action when it has a movement keyword, else dialogue; every other   *)
(* kind of event is typed dialogue.                                         *)
C21_SceneTypeOfEvent ==
    Typed =>
        LET event == probe.event
        IN  probe.scene_type =
                CASE event.event_type = "combat" -> "combat"
                  [] event.event_type = "roll" -> "action"
                  [] event.event_type = "dialogue" -> "dialogue"
                  [] event.event_type = "action" /\ NamesCombat(event) -> "combat"
                  [] /\ event.event_type = "action"
                     /\ ~NamesCombat(event)
                     /\ NamesMovement(event) -> "action"
                  [] OTHER -> "dialogue"

C21_Witness ==
    /\ Typed
    /\ probe.event.event_type = "action"
    /\ NamesCombat(probe.event)
    /\ NamesMovement(probe.event)
    /\ probe.scene_type = "combat"

-----------------------------------------------------------------------------
(* Properties of the packing of panels into pages *)

\* The inner loop of _plan_comic_pages is about to place a panel
Placing == pc = "panels" /\ scene_panels # <<>>

NextPanel == Head(scene_panels)

OpenPage == pages[Len(pages)]

OpensNewPage ==
    /\ Len(pages') = Len(pages) + 1
    /\ SubSeq(pages', 1, Len(pages)) = pages
    /\ Len(pages'[Len(pages')].panels) = 1
    /\ pages'[Len(pages')].panels[1].scene_id = NextPanel.scene_id

AppendsToOpenPage ==
    /\ Len(pages') = Len(pages)
    /\ SubSeq(pages', 1, Len(pages) - 1) = SubSeq(pages, 1, Len(pages) - 1)
    /\ SubSeq(pages'[Len(pages')].panels, 1, Len(OpenPage.panels))
           = OpenPage.panels
    /\ Len(pages'[Len(pages')].panels) = Len(OpenPage.panels) + 1
    /\ pages'[Len(pages')].panels[Len(OpenPage.panels) + 1].scene_id
           = NextPanel.scene_id

(* C22: a panel opens a new page exactly when there is no open page, or the *)
(* open page holds 6 panels or more, or it holds 4 or more and the scene of *)
(* the panel has tension above 0.7; otherwise it joins the open page.       *)
C22_NewPageRule ==
    [][Placing =>
          IF \/ pages = <<>>
             \/ Len(OpenPage.panels) >= 6
             \/ Len(OpenPage.panels) >= 4 /\ PanelTension(NextPanel) > 7
          THEN OpensNewPage
          ELSE AppendsToOpenPage]_vars

C22_Witness ==
    /\ Len(pages) = 2
    /\ Len(pages[1].panels) = 4
    /\ Len(pages[2].panels) = 1
    /\ PanelTension(pages[2].panels[1]) > 7
    /\ PanelTension(pages[1].panels[4]) <= 7

IsPrefix(shorter, longer) ==
    /\ Len(shorter) <= Len(longer)
    /\ SubSeq(longer, 1, Len(shorter)) = shorter

(* C23: a step of the packing changes the last page only: every page before *)
(* the last stays as it is, the last page is frozen as soon as a new page   *)
(* is started, and a page only ever gains panels at its end.                *)
C23_PagesAppendOnly ==
    [][/\ Len(pages') >= Len(pages)
       /\ \A p \in 1..Len(pages) :
              /\ IsPrefix(pages[p].panels, pages'[p].panels)
              /\ (p < Len(pages) \/ Len(pages') > Len(pages))
                     => pages'[p] = pages[p]]_vars

C23_Witness ==
    /\ Len(pages) = 2
    /\ Len(pages[1].panels) >= 4
    /\ Len(pages[2].panels) >= 2

-----------------------------------------------------------------------------
(* Properties of the panels of one scene *)

Roles(panels) == [n \in 1..Len(panels) |-> panels[n].role]

OfKind(events, kinds) == SelectSeq(events, LAMBDA e : e.event_type \in kinds)

(* C24: for a combat scene of the plan and a count of 2 or more, the panels *)
(* are the setup panel, then the main-action panel, then the resolution     *)
(* panel when the count is 3 or more; the main-action panel is left out     *)
(* only when the scene has no combat or action event.                       *)
C24_CombatPanelRoles ==
    (Allocated /\ probe.scene.scene_type = "combat" /\ probe.panel_count >= 2)
        => LET fighting == OfKind(Members(probe.scene), {"combat", "action"})
           IN  Roles(probe.panels) =
                   <<"setup">>
                     \o (IF fighting # <<>> THEN <<"main_action">> ELSE <<>>)
                     \o (IF probe.panel_count >= 3 THEN <<"resolution">>
                         ELSE <<>>)

C24_Witness ==
    /\ Allocated
    /\ probe.scene.scene_type = "combat"
    /\ probe.panel_count = CalculatePanelsNeeded(probe.scene)
    /\ Roles(probe.panels) = <<"setup", "main_action", "resolution">>

\* The members of a scene are held in timestamp order (scene.events);
\* _create_panels_for_scene looks them up in the order of mission.events
MainActionPanels(panels) == SelectSeq(panels, LAMBDA p : p.role = "main_action")

TemporalMedian(events) == events[(Len(events) \div 2) + 1]

(* C25: the main-action panel of a combat scene is built from the temporal  *)
(* median of the scene's combat and action events: the event at index       *)
(* floor(n/2) of those n events in timestamp order, also when the mission   *)
(* lists its events out of timestamp order.                                 *)
C25_MainActionIsTemporalMedian ==
    Planned =>
        \A k \in 1..Len(created) :
            mission_scenes[k].scene_type = "combat" =>
                LET fighting == OfKind(Members(mission_scenes[k]),
                                       {"combat", "action"})
                    main == MainActionPanels(created[k])
                IN  \A n \in 1..Len(main) :
                        main[n].key_event = TemporalMedian(fighting).id

(* C26: for a dialogue (action) scene with a count k of 2 or more and d      *)
(* dialogue (action) events among its members, min(k, d) panels are made,   *)
(* the i-th from the i-th such event in the order of the scene's members.   *)
C26_PanelPerEventInMemberOrder ==
    Planned =>
        \A k \in 1..Len(created) :
            LET scene == mission_scenes[k]
                kind == IF scene.scene_type = "dialogue" THEN "dialogue"
                        ELSE "action"
                of_kind == OfKind(Members(scene), {kind})
            IN  (scene.scene_type \in {"dialogue", "action"}
                     /\ PanelsPlanned(k) >= 2)
                    => /\ Len(created[k]) = Min(PanelsPlanned(k), Len(of_kind))
                       /\ \A n \in 1..Len(created[k]) :
                              /\ created[k][n].key_event = of_kind[n].id
                              /\ created[k][n].dialogue
                                     = of_kind[n].dialogue_content

\* The member of highest score, the first of them in the order of the
\* scene's members when several share it
FirstHighest(events) ==
    LET top == MaxOf({CalculateEventTension(events[n]) : n \in 1..Len(events)})
        first == CHOOSE n \in 1..Len(events) :
                     /\ CalculateEventTension(events[n]) = top
                     /\ \A m \in 1..(n - 1) :
                            CalculateEventTension(events[m]) < top
    IN  events[first]

(* C27: with a count of 1 a scene gets exactly one panel, numbered 1, built *)
(* from its member of highest tension score, the first such member when     *)
(* several share the score, and carrying that event's dialogue line.        *)
C27_SinglePanelFromFirstHighest ==
    Planned =>
        \A k \in 1..Len(created) :
            PanelsPlanned(k) = 1 =>
                LET key == FirstHighest(Members(mission_scenes[k]))
                IN  /\ Len(created[k]) = 1
                    /\ created[k][1].panel_number = 1
                    /\ created[k][1].role = "single"
                    /\ created[k][1].key_event = key.id
                    /\ created[k][1].dialogue = key.dialogue_content

-----------------------------------------------------------------------------
(* Properties of the members of a scene *)

MemberTypes(scene) ==
    [n \in 1..Len(scene.events) |-> DetermineSceneType(Members(scene)[n])]

(* C28: the type of a scene is the derived type of its last member, and the *)
(* members are all combat-typed (a combat scene), all dialogue-typed (a     *)
(* dialogue scene), or some dialogue-typed events, possibly none, followed  *)
(* by one or more action-typed ones (an action scene); so a combat scene    *)
(* has a combat or action event among its members.                          *)
C28_MemberTypeShapes ==
    \A k \in 1..Len(scenes) :
        LET scene == scenes[k]
            types == MemberTypes(scene)
            count == Len(types)
        IN  /\ scene.scene_type = types[count]
            /\ \/ /\ scene.scene_type = "combat"
                  /\ \A n \in 1..count : types[n] = "combat"
                  /\ OfKind(Members(scene), {"combat", "action"}) # <<>>
               \/ /\ scene.scene_type = "dialogue"
                  /\ \A n \in 1..count : types[n] = "dialogue"
               \/ /\ scene.scene_type = "action"
                  /\ \E d \in 0..(count - 1) :
                         /\ \A n \in 1..d : types[n] = "dialogue"
                         /\ \A n \in (d + 1)..count : types[n] = "action"

C28_Witness ==
    /\ Planned
    /\ \E k \in 1..Len(mission_scenes) :
           /\ mission_scenes[k].scene_type = "action"
           /\ MemberTypes(mission_scenes[k]) = <<"dialogue", "action">>
    /\ \E k \in 1..Len(mission_scenes) :
           mission_scenes[k].scene_type = "combat"

(* C29: the members of a scene that name a location all name the same one,  *)
(* and it is the location of the scene; two events that name different      *)
(* locations are never members of one scene.                                *)
C29_OneLocationPerScene ==
    \A k \in 1..Len(scenes) :
        LET members == Members(scenes[k])
        IN  \A a, b \in 1..Len(members) :
                members[a].location_id # None =>
                    /\ scenes[k].location_id = members[a].location_id
                    /\ members[b].location_id
                           \in {None, members[a].location_id}

C29_Witness ==
    /\ Planned
    /\ \E k \in 1..Len(mission_scenes) :
           LET members == Members(mission_scenes[k])
           IN  /\ Len(members) = 3
               /\ members[1].location_id = "B"
               /\ members[2].location_id = None
               /\ members[3].location_id = "B"
               /\ mission_scenes[k].location_id = "B"

(* C30: no page is empty, and every page but the last holds at least 4      *)
(* panels.                                                                  *)
C30_PagesFilled ==
    \A p \in 1..Len(pages) :
        /\ pages[p].panels # <<>>
        /\ p < Len(pages) => Len(pages[p].panels) >= 4

C30_Witness ==
    /\ Planned
    /\ Len(mission_pages) = 2
    /\ Len(mission_pages[1].panels) = 4
    /\ Len(mission_pages[2].panels) \in 1..3

====
